---- MODULE Spec2Model ----
(***************************************************************************)
(* Model of pptx/shapes.py: _ShapeCollection, the shape tree of a slide.  *)
(*                                                                         *)
(* The XML document is a set of elements (elm) with an ordered child list  *)
(* per container element (kids).  A _ShapeCollection object is identified  *)
(* by the handle of the spTree/grpSp element it was constructed on; its    *)
(* in-memory sequence is shapes[c].  A name is the sequence of the words   *)
(* of the string, so '%s %d' % (base, n) is base with the decimal numeral  *)
(* of n appended as last word.                                             *)
(***************************************************************************)
EXTENDS Integers, Sequences, FiniteSets, TLC

VARIABLES
    elm,      \* handle -> element (tag and the attributes the code reads)
    kids,     \* container handle -> sequence of child handles (document order)
    shapes,   \* constructed collection -> its sequence of shape objects
    slide,    \* constructed collection -> "slide" or "None" (the slide argument)
    state,    \* "new" before _ShapeCollection(spTree, slide), then "ready" / "error"
    last,     \* the last call: operation, collection, argument, result
    prev,     \* the document as the last call found it
    freed,    \* ids of the elements an external collaborator removed
    loop      \* the running loop of _clone_layout_placeholders, step by step

vars == <<elm, kids, shapes, slide, state, last, prev, freed, loop>>

---------------------------------------------------------------------------
(* Bounds *)

\* number of elements the add/clone operations may create in one run
MaxNew == 2
\* largest id carried by an element of the initial document
MaxInitId == 4
\* number of elements the external collaborator may remove in one run
MaxDeleted == 1

\* the most children below the two property children of the unmarshalled spTree
MaxTop == 2

\* the most children below the two property children of a group of that tree
MaxInner == 1

---------------------------------------------------------------------------
(* Constants of the program *)

NVGRPSPPR == "nvGrpSpPr"
GRPSPPR == "grpSpPr"
SP == "sp"
GRPSP == "grpSp"
GRAPHICFRAME == "graphicFrame"
CXNSP == "cxnSp"
PIC == "pic"
CONTENTPART == "contentPart"
EXTLST == "extLst"
SPTREE == "spTree"

PH_ORIENT_VERT == "vert"
PH_ORIENT_HORZ == "horz"
PH_TYPE_DT == "dt"
PH_TYPE_FTR == "ftr"
PH_TYPE_SLDNUM == "sldNum"
PH_TYPE_TITLE == "title"
PH_TYPE_CTRTITLE == "ctrTitle"
PH_TYPE_BODY == "body"
PH_TYPE_TBL == "tbl"

\* pptx.spec.slide_ph_basenames: placeholder type -> base name (as words)
slide_ph_basenames(ph_type) ==
    CASE ph_type = PH_TYPE_TITLE    -> <<"Title">>
      [] ph_type = PH_TYPE_CTRTITLE -> <<"Title">>
      [] ph_type = PH_TYPE_BODY     -> <<"Text", "Placeholder">>
      [] ph_type = PH_TYPE_TBL      -> <<"Table", "Placeholder">>
      [] ph_type = PH_TYPE_DT       -> <<"Date", "Placeholder">>
      [] ph_type = PH_TYPE_FTR      -> <<"Footer", "Placeholder">>
      [] ph_type = PH_TYPE_SLDNUM   -> <<"Slide", "Number", "Placeholder">>

\* _AutoShapeType(autoshape_type_id).basename for the shape types used here
autoshape_basename(autoshape_type_id) ==
    CASE autoshape_type_id = "SHAPE_RECTANGLE"         -> <<"Rectangle">>
      [] autoshape_type_id = "SHAPE_ROUNDED_RECTANGLE" -> <<"Rounded", "Rectangle">>

AutoShapeTypeIds == {"SHAPE_RECTANGLE", "SHAPE_ROUNDED_RECTANGLE"}

---------------------------------------------------------------------------
(* Generic helpers *)

Range(s) == {s[i] : i \in DOMAIN s}

Max(S) == CHOOSE x \in S : \A y \in S : y <= x

\* '%s %d' % (basename, n)
Fmt(basename, n) == Append(basename, ToString(n))

\* 'Vertical %s' % basename
FmtVertical(basename) == <<"Vertical">> \o basename

RECURSIVE Flatten(_)
Flatten(ss) == IF ss = <<>> THEN <<>> ELSE Head(ss) \o Flatten(Tail(ss))

\* an element: its tag, the id and name of its cNvPr, its p:ph attributes
Element(tag, id, name) ==
    [tag |-> tag, id |-> id, name |-> name, ph |-> FALSE, type |-> "",
     orient |-> "", sz |-> "", idx |-> 0, has_table |-> FALSE]

Root == 1

\* the document the operations work on
Doc == [elm |-> elm, kids |-> kids, shapes |-> shapes]

---------------------------------------------------------------------------
(* Tree scans *)

\* the tags whose element holds a cNvPr of its own (a container's cNvPr is
\* the one of its nvGrpSpPr child; grpSpPr and extLst hold none)
HasCNvPr(tag) == tag \notin {SPTREE, GRPSP, GRPSPPR, EXTLST}

RECURSIVE iterdescendants(_, _)
\* the elements of the subtree of h, in document order
iterdescendants(d, h) ==
    <<h>> \o (IF h \in DOMAIN d.kids
              THEN Flatten([i \in 1..Len(d.kids[h]) |-> iterdescendants(d, d.kids[h][i])])
              ELSE <<>>)

\* spTree.xpath('//p:cNvPr'): '//' selects from the document root, whichever
\* element the query is issued on
xpath_cNvPr(d) == SelectSeq(iterdescendants(d, Root), LAMBDA h : HasCNvPr(d.elm[h].tag))

\* spTree.xpath('//p:cNvPr/@name')
xpath_cNvPr_name(d) ==
    LET cNvPrs == xpath_cNvPr(d)
    IN  [i \in 1..Len(cNvPrs) |-> d.elm[cNvPrs[i]].name]

RECURSIVE insort(_, _)
\* x put into the ascending sequence s
insort(s, x) ==
    IF s = <<>> THEN <<x>>
    ELSE IF x < Head(s) THEN <<x>> \o s
    ELSE <<Head(s)>> \o insort(Tail(s), x)

RECURSIVE sort(_)
\* ids.sort()
sort(s) == IF s = <<>> THEN <<>> ELSE insort(sort(SubSeq(s, 1, Len(s) - 1)), s[Len(s)])

---------------------------------------------------------------------------
(* The allocators *)

RECURSIVE first_gap(_, _, _)

\* a counter in place of the scan for the first gap
next_shape_id_count(d) == Len(xpath_cNvPr(d)) + 1

\* one past the largest id, gaps left unused
next_shape_id_max(d) ==
    LET cNvPrs == xpath_cNvPr(d)
    IN  Max({d.elm[cNvPrs[i]].id : i \in 1..Len(cNvPrs)}) + 1

\* the scan stopped one id late: 'if id >= next_id' in place of 'if id > next_id'
first_gap_ge(ids, i, next_id) ==
    IF i > Len(ids) THEN next_id
    ELSE IF ids[i] >= next_id THEN next_id
    ELSE first_gap(ids, i + 1, next_id + 1)

\* the loop of __next_shape_id: for id in ids: if id > next_id: break; next_id += 1
first_gap(ids, i, next_id) ==
    IF i > Len(ids) THEN next_id
    ELSE IF ids[i] > next_id THEN next_id
    ELSE first_gap(ids, i + 1, next_id + 1)

\* _ShapeCollection.__next_shape_id
next_shape_id(d) ==
    LET cNvPrs == xpath_cNvPr(d)
        ids == sort([i \in 1..Len(cNvPrs) |-> d.elm[cNvPrs[i]].id])
    IN  first_gap(ids, 1, 1)

\* the name taken without the search for a free number
unique_name_first(basename, numpart, names) == Fmt(basename, numpart)

RECURSIVE unique_name(_, _, _)
\* the loop of __next_ph_name: while True: name = '%s %d' % (basename, numpart) ...
unique_name(basename, numpart, names) ==
    IF Fmt(basename, numpart) \notin Range(names) THEN Fmt(basename, numpart)
    ELSE unique_name(basename, numpart + 1, names)

\* _ShapeCollection.__next_ph_name
next_ph_name(d, ph_type, id, orient) ==
    LET basename == IF orient = PH_ORIENT_VERT
                    THEN FmtVertical(slide_ph_basenames(ph_type))
                    ELSE slide_ph_basenames(ph_type)
        names == xpath_cNvPr_name(d)
    IN  unique_name(basename, id - 1, names)

---------------------------------------------------------------------------
(* Construction *)

\* the children the unmarshal loop passes over
is_skipped(tag) == tag \in {NVGRPSPPR, GRPSPPR, EXTLST}

\* every graphicFrame taken for a table, has_table not looked at
shape_class_no_has_table(e) ==
    IF e.tag = SP THEN "_Shape"
    ELSE IF e.tag = PIC THEN "_Picture"
    ELSE IF e.tag = GRPSP THEN "_ShapeCollection"
    ELSE IF e.tag = GRAPHICFRAME THEN "_Table"
    ELSE "_BaseShape"

\* the class of the shape object built for an element (contentPart raises)
shape_class(e) ==
    IF e.tag = SP THEN "_Shape"
    ELSE IF e.tag = PIC THEN "_Picture"
    ELSE IF e.tag = GRPSP THEN "_ShapeCollection"
    ELSE IF e.tag = GRAPHICFRAME
         THEN (IF e.has_table THEN "_Table" ELSE "_BaseShape")
    ELSE "_BaseShape"

NoShapes == [c \in {} |-> <<>>]

RECURSIVE unmarshal(_, _, _, _)

\* the shapes of a group put into the sequence of its parent, after the group
unmarshal_flat(d, spTree, i, acc) ==
    IF i > Len(d.kids[spTree])
    THEN [raised |-> FALSE, shapes |-> acc.nested @@ (spTree :> acc.own)]
    ELSE LET h == d.kids[spTree][i]
             e == d.elm[h]
         IN  IF is_skipped(e.tag) THEN unmarshal(d, spTree, i + 1, acc)
             ELSE IF e.tag = CONTENTPART THEN [raised |-> TRUE, shapes |-> NoShapes]
             ELSE IF e.tag = GRPSP
             THEN LET sub == unmarshal(d, h, 1, [own |-> <<>>, nested |-> NoShapes])
                  IN  IF sub.raised THEN sub
                      ELSE unmarshal(d, spTree, i + 1,
                               [own |-> Append(acc.own, [cls |-> shape_class(e), elm |-> h])
                                        \o sub.shapes[h],
                                nested |-> acc.nested @@ sub.shapes])
             ELSE unmarshal(d, spTree, i + 1,
                      [own |-> Append(acc.own, [cls |-> shape_class(e), elm |-> h]),
                       nested |-> acc.nested])

\* the loop without the contentPart branch: the element falls to the else branch
unmarshal_no_raise(d, spTree, i, acc) ==
    IF i > Len(d.kids[spTree])
    THEN [raised |-> FALSE, shapes |-> acc.nested @@ (spTree :> acc.own)]
    ELSE LET h == d.kids[spTree][i]
             e == d.elm[h]
         IN  IF is_skipped(e.tag) THEN unmarshal(d, spTree, i + 1, acc)
             ELSE IF e.tag = GRPSP
             THEN LET sub == unmarshal(d, h, 1, [own |-> <<>>, nested |-> NoShapes])
                  IN  IF sub.raised THEN sub
                      ELSE unmarshal(d, spTree, i + 1,
                               [own |-> Append(acc.own, [cls |-> shape_class(e), elm |-> h]),
                                nested |-> acc.nested @@ sub.shapes])
             ELSE unmarshal(d, spTree, i + 1,
                      [own |-> Append(acc.own, [cls |-> shape_class(e), elm |-> h]),
                       nested |-> acc.nested])

\* _ShapeCollection.__init__(spTree): the loop over spTree.iterchildren() from
\* child i on, own the shapes appended so far, nested the collections built
\* for the grpSp children so far.  The result is [raised, shapes]: shapes
\* maps spTree and every group below it to its sequence.
unmarshal(d, spTree, i, acc) ==
    IF i > Len(d.kids[spTree])
    THEN [raised |-> FALSE, shapes |-> acc.nested @@ (spTree :> acc.own)]
    ELSE LET h == d.kids[spTree][i]
             e == d.elm[h]
         IN  IF is_skipped(e.tag) THEN unmarshal(d, spTree, i + 1, acc)
             ELSE IF e.tag = CONTENTPART THEN [raised |-> TRUE, shapes |-> NoShapes]
             ELSE IF e.tag = GRPSP
             THEN LET sub == unmarshal(d, h, 1, [own |-> <<>>, nested |-> NoShapes])
                  IN  IF sub.raised THEN sub
                      ELSE unmarshal(d, spTree, i + 1,
                               [own |-> Append(acc.own, [cls |-> shape_class(e), elm |-> h]),
                                nested |-> acc.nested @@ sub.shapes])
             ELSE unmarshal(d, spTree, i + 1,
                      [own |-> Append(acc.own, [cls |-> shape_class(e), elm |-> h]),
                       nested |-> acc.nested])

\* _ShapeCollection(spTree, slide)
ShapeCollection(d, spTree) == unmarshal(d, spTree, 1, [own |-> <<>>, nested |-> NoShapes])

---------------------------------------------------------------------------
(* Node builders (pptx.oxml) *)

\* CT_Picture.new_pic(id, name, ...)
new_pic(id, name) == Element(PIC, id, name)

\* CT_Shape.new_autoshape_sp(id, name, prst, ...)
new_autoshape_sp(id, name) == Element(SP, id, name)

\* CT_Shape.new_textbox_sp(id, name, ...)
new_textbox_sp(id, name) == Element(SP, id, name)

\* CT_GraphicalObjectFrame.new_table(id, name, rows, cols, ...)
new_table(id, name) == [Element(GRAPHICFRAME, id, name) EXCEPT !.has_table = TRUE]

\* CT_Shape.new_placeholder_sp(id, name, ph_type, orient, sz, idx)
new_placeholder_sp(id, name, ph_type, orient, sz, idx) ==
    [Element(SP, id, name) EXCEPT !.ph = TRUE, !.type = ph_type,
                                  !.orient = orient, !.sz = sz, !.idx = idx]

---------------------------------------------------------------------------
(* The add operations, as functions of the document *)

\* the handle of the next element object created
new_handle(d) == Max(DOMAIN d.elm) + 1

\* element e comes into being as new_handle(d)
create(d, e) == [d EXCEPT !.elm = d.elm @@ (new_handle(d) :> e)]

\* the element put before the children of the node in place of after them
spTree_insert_first(d, c, h) == [d EXCEPT !.kids[c] = <<h>> \o @]

\* self.__spTree.append(h)
spTree_append(d, c, h) == [d EXCEPT !.kids[c] = Append(@, h)]

\* the append to the sequence left out
shapes_append_none(d, c, cls, h) == d

\* self.__shapes.append(cls(h))
shapes_append(d, c, cls, h) == [d EXCEPT !.shapes[c] = Append(@, [cls |-> cls, elm |-> h])]

\* _ShapeCollection.add_picture, after self.__slide._add_image(file)
add_picture(d, c) ==
    LET id == next_shape_id(d)
        name == Fmt(<<"Picture">>, id - 1)
        pic == new_handle(d)
    IN  shapes_append(spTree_append(create(d, new_pic(id, name)), c, pic), c, "_Picture", pic)

\* _ShapeCollection.add_shape
add_shape(d, c, autoshape_type_id) ==
    LET id_ == next_shape_id(d)
        name == Fmt(autoshape_basename(autoshape_type_id), id_ - 1)
        sp == new_handle(d)
    IN  shapes_append(spTree_append(create(d, new_autoshape_sp(id_, name)), c, sp), c, "_Shape", sp)

\* add_table with the name of a picture
add_table_named_picture(d, c) ==
    LET id == next_shape_id(d)
        name == Fmt(<<"Picture">>, id - 1)
        graphicFrame == new_handle(d)
    IN  shapes_append(spTree_append(create(d, new_table(id, name)), c, graphicFrame),
                      c, "_Table", graphicFrame)

\* _ShapeCollection.add_table
add_table(d, c) ==
    LET id == next_shape_id(d)
        name == Fmt(<<"Table">>, id - 1)
        graphicFrame == new_handle(d)
    IN  shapes_append(spTree_append(create(d, new_table(id, name)), c, graphicFrame),
                      c, "_Table", graphicFrame)

\* add_textbox with the id itself as the suffix of the name
add_textbox_suffix_id(d, c) ==
    LET id_ == next_shape_id(d)
        name == Fmt(<<"TextBox">>, id_)
        sp == new_handle(d)
    IN  shapes_append(spTree_append(create(d, new_textbox_sp(id_, name)), c, sp), c, "_Shape", sp)

\* _ShapeCollection.add_textbox
add_textbox(d, c) ==
    LET id_ == next_shape_id(d)
        name == Fmt(<<"TextBox">>, id_ - 1)
        sp == new_handle(d)
    IN  shapes_append(spTree_append(create(d, new_textbox_sp(id_, name)), c, sp), c, "_Shape", sp)

\* __clone_layout_placeholder with the idx of the layout placeholder not copied
clone_layout_placeholder_noidx(d, c, layout_ph) ==
    LET id_ == next_shape_id(d)
        shapename == next_ph_name(d, layout_ph.type, id_, layout_ph.orient)
        sp == new_handle(d)
    IN  shapes_append(
            spTree_append(create(d, new_placeholder_sp(id_, shapename, layout_ph.type,
                                                       layout_ph.orient, layout_ph.sz, 0)),
                          c, sp),
            c, "_Shape", sp)

\* _ShapeCollection.__clone_layout_placeholder
clone_layout_placeholder(d, c, layout_ph) ==
    LET id_ == next_shape_id(d)
        ph_type == layout_ph.type
        orient == layout_ph.orient
        shapename == next_ph_name(d, ph_type, id_, orient)
        sz == layout_ph.sz
        idx == layout_ph.idx
        sp == new_handle(d)
    IN  shapes_append(
            spTree_append(create(d, new_placeholder_sp(id_, shapename, ph_type, orient, sz, idx)),
                          c, sp),
            c, "_Shape", sp)

latent_ph_types == {PH_TYPE_DT, PH_TYPE_SLDNUM, PH_TYPE_FTR}

\* the test without the latent placeholder types
is_cloned_latent_too(sp) == sp.ph

\* the test of the loop of _clone_layout_placeholders: sp is cloned
is_cloned(sp) == sp.ph /\ sp.type \notin latent_ph_types

RECURSIVE clone_layout_placeholders(_, _, _)
\* _ShapeCollection._clone_layout_placeholders: for sp in slidelayout.shapes
clone_layout_placeholders(d, c, layout) ==
    IF layout = <<>> THEN d
    ELSE clone_layout_placeholders(
             IF is_cloned(Head(layout)) THEN clone_layout_placeholder(d, c, Head(layout)) ELSE d,
             c, Tail(layout))

---------------------------------------------------------------------------
(* Properties of a collection *)

RECURSIVE insort_idx(_, _, _)

\* ph put before the elements of equal idx: a sort that is not stable
insort_idx_unstable(d, s, ph) ==
    IF s = <<>> THEN <<ph>>
    ELSE IF d.elm[ph].idx <= d.elm[Head(s)].idx THEN <<ph>> \o s
    ELSE <<Head(s)>> \o insort_idx(d, Tail(s), ph)

\* ph put into s, ascending by idx, after the elements of equal idx
insort_idx(d, s, ph) ==
    IF s = <<>> THEN <<ph>>
    ELSE IF d.elm[ph].idx < d.elm[Head(s)].idx THEN <<ph>> \o s
    ELSE <<Head(s)>> \o insort_idx(d, Tail(s), ph)

RECURSIVE sort_idx(_, _)
\* placeholders.sort(key=lambda ph: ph.idx), a stable sort
sort_idx(d, s) ==
    IF s = <<>> THEN <<>>
    ELSE insort_idx(d, sort_idx(d, SubSeq(s, 1, Len(s) - 1)), s[Len(s)])

\* _ShapeCollection.placeholders: the elements of the placeholder shapes
placeholders(d, c) ==
    LET phs == SelectSeq(d.shapes[c], LAMBDA sp : d.elm[sp.elm].ph)
    IN  sort_idx(d, [i \in 1..Len(phs) |-> phs[i].elm])

\* shape._is_title: the shape is a placeholder whose type denotes a title
is_title(e) == e.ph /\ e.type \in {PH_TYPE_TITLE, PH_TYPE_CTRTITLE}

\* the value of title when no shape is a title
None == 0

\* the last title shape of the collection in place of the first
title_last(d, c) ==
    LET titles == SelectSeq(d.shapes[c], LAMBDA shape : is_title(d.elm[shape.elm]))
    IN  IF titles = <<>> THEN None ELSE titles[Len(titles)].elm

RECURSIVE title_loop(_, _, _)
\* for shape in self.__shapes: if shape._is_title: return shape
title_loop(d, c, i) ==
    IF i > Len(d.shapes[c]) THEN None
    ELSE IF is_title(d.elm[d.shapes[c][i].elm]) THEN d.shapes[c][i].elm
    ELSE title_loop(d, c, i + 1)

\* _ShapeCollection.title: the element of the shape returned, or None
title(d, c) == title_loop(d, c, 1)

---------------------------------------------------------------------------
(* Inputs *)

Placeholder(type, orient, sz, idx) ==
    [ph |-> TRUE, type |-> type, orient |-> orient, sz |-> sz, idx |-> idx]

LTitle == Placeholder(PH_TYPE_TITLE, PH_ORIENT_HORZ, "full", 0)
LCtrTitle == Placeholder(PH_TYPE_CTRTITLE, PH_ORIENT_HORZ, "full", 0)
LBodyV == Placeholder(PH_TYPE_BODY, PH_ORIENT_VERT, "half", 1)
LDate == Placeholder(PH_TYPE_DT, PH_ORIENT_HORZ, "half", 10)
LFooter == Placeholder(PH_TYPE_FTR, PH_ORIENT_HORZ, "quarter", 11)
LSldNum == Placeholder(PH_TYPE_SLDNUM, PH_ORIENT_HORZ, "quarter", 12)
\* a layout shape that is no placeholder
LLogo == [ph |-> FALSE, type |-> "", orient |-> "", sz |-> "", idx |-> 0]

\* the slidelayout.shapes sequences handed to _clone_layout_placeholders
Layouts ==
    { <<LBodyV, LDate, LFooter, LSldNum, LTitle>>,
      <<LCtrTitle, LLogo, LBodyV>>,
      <<LSldNum, LTitle>> }

\* the shapes the initial document may hold at top level, named base + num
InitShape(kind, id, num) ==
    CASE kind = "textbox" -> Element(SP, id, Fmt(<<"TextBox">>, num))
      [] kind = "title"   -> [Element(SP, id, Fmt(<<"Title">>, num)) EXCEPT
                                 !.ph = TRUE, !.type = PH_TYPE_TITLE,
                                 !.orient = PH_ORIENT_HORZ, !.sz = "full", !.idx = 0]
      [] kind = "table"   -> [Element(GRAPHICFRAME, id, Fmt(<<"Table">>, num)) EXCEPT
                                 !.has_table = TRUE]
      [] kind = "content" -> Element(CONTENTPART, id, Fmt(<<"Content", "Part">>, num))

InitKinds == {"textbox", "title", "table", "content"}

\* handles of the initial document: spTree 1 (nvGrpSpPr 2, grpSpPr 3, shape 4,
\* grpSp 5 (nvGrpSpPr 6, grpSpPr 7, pic 8), extLst 9)
InitHandles == 1..9

InitElm(hasA, hasG, kind, a, na, g, b) ==
    [h \in {1, 2, 3, 9} \cup (IF hasA THEN {4} ELSE {}) \cup (IF hasG THEN {5, 6, 7, 8} ELSE {}) |->
        CASE h = 1 -> Element(SPTREE, 0, <<>>)
          [] h = 2 -> Element(NVGRPSPPR, 1, <<>>)
          [] h = 3 -> Element(GRPSPPR, 0, <<>>)
          [] h = 4 -> InitShape(kind, a, na)
          [] h = 5 -> Element(GRPSP, 0, <<>>)
          [] h = 6 -> Element(NVGRPSPPR, g, Fmt(<<"Group">>, g - 1))
          [] h = 7 -> Element(GRPSPPR, 0, <<>>)
          [] h = 8 -> Element(PIC, b, Fmt(<<"Picture">>, b - 1))
          [] h = 9 -> Element(EXTLST, 0, <<>>)]

InitKids(hasA, hasG) ==
    (Root :> (<<2, 3>> \o (IF hasA THEN <<4>> ELSE <<>>)
                       \o (IF hasG THEN <<5>> ELSE <<>>) \o <<9>>))
    @@ (IF hasG THEN (5 :> <<6, 7, 8>>) ELSE NoShapes)

NoCall == [op |-> "none", coll |-> 0, kind |-> "", layout |-> <<>>, ret |-> 0, raised |-> FALSE]

Call(op, c, ret) == [NoCall EXCEPT !.op = op, !.coll = c, !.ret = ret]

\* no call of _clone_layout_placeholders is running
NoLoop ==
    [active |-> FALSE, coll |-> 0, self |-> FALSE, layout |-> <<>>, i |-> 0, len0 |-> 0,
     doc0 |-> [elm |-> <<>>, kids |-> <<>>, shapes |-> <<>>]]

\* the documents a collection is constructed on: ids pairwise distinct and
\* positive, names pairwise distinct, the root's cNvPr with id 1; the
\* picture in the group has the id after the group's
Init ==
    \E hasA, hasG \in BOOLEAN, kind \in InitKinds :
    \E a, g \in 2..MaxInitId, na \in 1..(MaxInitId - 1) :
        /\ hasA => na \in {a - 1, 1}
        /\ ~hasA => (a = 2 /\ na = 1 /\ kind = "textbox")
        /\ ~hasG => g = 2
        /\ (hasA /\ hasG) => (a # g /\ a # g + 1)
        /\ elm = InitElm(hasA, hasG, kind, a, na, g, g + 1)
        /\ kids = InitKids(hasA, hasG)
        /\ shapes = NoShapes
        /\ slide = NoShapes
        /\ state = "new"
        /\ last = NoCall
        /\ prev = [elm |-> elm, kids |-> kids, shapes |-> shapes]
        /\ freed = {}
        /\ loop = NoLoop

\* the kinds of child the unmarshalled trees are built from: one per branch
\* of the unmarshal loop, "frame" a graphicFrame without a table, "other" an
\* element of a tag the loop does not name
TreeKinds == {"sp", "pic", "grpSp", "table", "frame", "cxnSp", "contentPart", "other", "extLst"}

\* the element of kind kind with handle h, its id h and its name kind + (h - 1)
KindElement(kind, h) ==
    CASE kind = "sp"          -> Element(SP, h, Fmt(<<"TextBox">>, h - 1))
      [] kind = "pic"         -> Element(PIC, h, Fmt(<<"Picture">>, h - 1))
      [] kind = "grpSp"       -> Element(GRPSP, 0, <<>>)
      [] kind = "table"       -> [Element(GRAPHICFRAME, h, Fmt(<<"Table">>, h - 1)) EXCEPT
                                     !.has_table = TRUE]
      [] kind = "frame"       -> Element(GRAPHICFRAME, h, Fmt(<<"Chart">>, h - 1))
      [] kind = "cxnSp"       -> Element(CXNSP, h, Fmt(<<"Connector">>, h - 1))
      [] kind = "contentPart" -> Element(CONTENTPART, h, Fmt(<<"Content", "Part">>, h - 1))
      [] kind = "other"       -> Element("AlternateContent", h, Fmt(<<"Other">>, h - 1))
      [] kind = "extLst"      -> Element(EXTLST, 0, <<>>)

\* the sequences over S of length at most n
SeqsUpTo(S, n) == UNION {[1..k -> S] : k \in 0..n}

\* handles of an unmarshalled tree: top child i is 10i; the property children
\* of a group 10i are 10i+1 and 10i+2 and its child j is 10i+2+j; a group
\* 10i+2+j holds 100i+10j+1 (nvGrpSpPr), 100i+10j+2 (grpSpPr), 100i+10j+3 (sp)
TopGroups(top) == {i \in 1..Len(top) : top[i] = "grpSp"}

InnerGroups(inner) == {j \in 1..Len(inner) : inner[j] = "grpSp"}

TreeHandles(top, inner) ==
    {1, 2, 3} \cup {10 * i : i \in 1..Len(top)}
    \cup {10 * i + k : i \in TopGroups(top), k \in 1..(2 + Len(inner))}
    \cup {100 * i + 10 * j + k : i \in TopGroups(top), j \in InnerGroups(inner), k \in 1..3}

TreeElm(top, inner) ==
    [h \in TreeHandles(top, inner) |->
        CASE h = 1 -> Element(SPTREE, 0, <<>>)
          [] h = 2 -> Element(NVGRPSPPR, 1, <<>>)
          [] h = 3 -> Element(GRPSPPR, 0, <<>>)
          [] h >= 100 /\ h % 10 = 1 -> Element(NVGRPSPPR, h, Fmt(<<"Group">>, h - 1))
          [] h >= 100 /\ h % 10 = 2 -> Element(GRPSPPR, 0, <<>>)
          [] h >= 100 /\ h % 10 = 3 -> Element(SP, h, Fmt(<<"TextBox">>, h - 1))
          [] h \in 10..99 /\ h % 10 = 0 -> KindElement(top[h \div 10], h)
          [] h \in 10..99 /\ h % 10 = 1 -> Element(NVGRPSPPR, h, Fmt(<<"Group">>, h - 1))
          [] h \in 10..99 /\ h % 10 = 2 -> Element(GRPSPPR, 0, <<>>)
          [] h \in 10..99 /\ h % 10 > 2 -> KindElement(inner[(h % 10) - 2], h)]

TreeKids(top, inner) ==
    [p \in {Root} \cup {10 * i : i \in TopGroups(top)}
            \cup {10 * i + 2 + j : i \in TopGroups(top), j \in InnerGroups(inner)} |->
        IF p = Root THEN <<2, 3>> \o [i \in 1..Len(top) |-> 10 * i]
        ELSE IF p % 10 = 0 THEN [k \in 1..(2 + Len(inner)) |-> p + k]
        ELSE [k \in 1..3 |-> 100 * (p \div 10) + 10 * ((p % 10) - 2) + k]]

\* the trees a collection is unmarshalled from: every sequence of kinds of
\* child at top level, every sequence of kinds in the groups of top level,
\* a group of a group holding one sp
InitUnmarshal ==
    \E top \in SeqsUpTo(TreeKinds, MaxTop), inner \in SeqsUpTo(TreeKinds, MaxInner) :
        /\ TopGroups(top) = {} => inner = <<>>
        /\ elm = TreeElm(top, inner)
        /\ kids = TreeKids(top, inner)
        /\ shapes = NoShapes
        /\ slide = NoShapes
        /\ state = "new"
        /\ last = NoCall
        /\ prev = [elm |-> elm, kids |-> kids, shapes |-> shapes]
        /\ freed = {}
        /\ loop = NoLoop

\* the ids a malformed tree may hold: negative, zero, and the ids of Init
MalformedIds == (0 - 1)..MaxInitId

\* trees that break the conventions of ids: the shape, the group and the
\* picture in it hold any ids, equal ones, zero and negative ones included
InitMalformed ==
    \E a, g, b \in MalformedIds :
        /\ elm = InitElm(TRUE, TRUE, "textbox", a, a - 1, g, b)
        /\ kids = InitKids(TRUE, TRUE)
        /\ shapes = NoShapes
        /\ slide = NoShapes
        /\ state = "new"
        /\ last = NoCall
        /\ prev = [elm |-> elm, kids |-> kids, shapes |-> shapes]
        /\ freed = {}
        /\ loop = NoLoop

---------------------------------------------------------------------------
(* Actions *)

\* the elements created since Init
created == DOMAIN elm \ InitHandles

Room(n) == Cardinality(created) + n <= MaxNew

Install(d) == elm' = d.elm /\ kids' = d.kids /\ shapes' = d.shapes /\ prev' = Doc

\* shapes = _ShapeCollection(spTree, slide) on the root of the document
Construct ==
    /\ state = "new"
    /\ LET r == ShapeCollection(Doc, Root)
       IN  IF r.raised
           THEN /\ state' = "error"
                /\ UNCHANGED <<shapes, slide>>
                /\ last' = [Call("init", Root, 0) EXCEPT !.raised = TRUE]
           ELSE /\ state' = "ready"
                /\ shapes' = r.shapes
                /\ slide' = [c \in DOMAIN r.shapes |-> IF c = Root THEN "slide" ELSE "None"]
                /\ last' = Call("init", Root, 0)
    /\ prev' = Doc
    /\ UNCHANGED <<elm, kids, freed, loop>>

\* c.add_picture(file, left, top): a collection built for a grpSp child has
\* no slide, and self.__slide._add_image raises before anything is changed
AddPicture(c) ==
    /\ state = "ready" /\ Room(1)
    /\ IF slide[c] = "None"
       THEN /\ UNCHANGED <<elm, kids, shapes>>
            /\ prev' = Doc
            /\ last' = [Call("add_picture", c, 0) EXCEPT !.raised = TRUE]
       ELSE /\ Install(add_picture(Doc, c))
            /\ last' = Call("add_picture", c, new_handle(Doc))
    /\ UNCHANGED <<slide, state, freed, loop>>

\* c.add_shape(autoshape_type_id, left, top, width, height)
AddShape(c, autoshape_type_id) ==
    /\ state = "ready" /\ Room(1)
    /\ Install(add_shape(Doc, c, autoshape_type_id))
    /\ last' = [Call("add_shape", c, new_handle(Doc)) EXCEPT !.kind = autoshape_type_id]
    /\ UNCHANGED <<slide, state, freed, loop>>

\* c.add_table(rows, cols, left, top, width, height)
AddTable(c) ==
    /\ state = "ready" /\ Room(1)
    /\ Install(add_table(Doc, c))
    /\ last' = Call("add_table", c, new_handle(Doc))
    /\ UNCHANGED <<slide, state, freed, loop>>

\* c.add_textbox(left, top, width, height)
AddTextbox(c) ==
    /\ state = "ready" /\ Room(1)
    /\ Install(add_textbox(Doc, c))
    /\ last' = Call("add_textbox", c, new_handle(Doc))
    /\ UNCHANGED <<slide, state, freed, loop>>

\* c._clone_layout_placeholders(slidelayout), slidelayout.shapes = layout
CloneLayoutPlaceholders(c, layout) ==
    /\ state = "ready"
    /\ Room(Len(SelectSeq(layout, is_cloned)))
    /\ Install(clone_layout_placeholders(Doc, c, layout))
    /\ last' = [Call("clone", c, 0) EXCEPT !.layout = layout]
    /\ UNCHANGED <<slide, state, freed, loop>>

\* the parent of an attached element
parent(h) == CHOOSE p \in DOMAIN kids : h \in Range(kids[p])

\* another component removes the shape element h from the tree (the
\* collection object is not told)
ExternalDelete(h) ==
    /\ state = "ready"
    /\ Cardinality(freed) < MaxDeleted
    /\ h \in Range(iterdescendants(Doc, Root))
    /\ h # Root
    /\ ~is_skipped(elm[h].tag) /\ elm[h].tag # GRPSP
    /\ kids' = [kids EXCEPT ![parent(h)] = SelectSeq(@, LAMBDA k : k # h)]
    /\ freed' = freed \cup {elm[h].id}
    /\ last' = Call("delete", parent(h), h)
    /\ prev' = Doc
    /\ UNCHANGED <<elm, shapes, slide, state, loop>>

Add ==
    \E c \in DOMAIN shapes :
        \/ AddPicture(c)
        \/ \E t \in AutoShapeTypeIds : AddShape(c, t)
        \/ AddTable(c)
        \/ AddTextbox(c)
        \/ \E layout \in Layouts : CloneLayoutPlaceholders(c, layout)

Next == Construct \/ Add

Spec == Init /\ [][Next]_vars

\* the calls made while another component edits the tree
AddExt ==
    \E c \in DOMAIN shapes :
        \/ AddTextbox(c)
        \/ CloneLayoutPlaceholders(c, <<LCtrTitle, LLogo, LBodyV>>)

NextExt == Construct \/ AddExt \/ \E h \in DOMAIN elm : ExternalDelete(h)

\* the collection used while another component edits the tree
SpecExt == Init /\ [][NextExt]_vars

\* the construction of a collection alone, on trees of every kind of child
SpecUnmarshal == InitUnmarshal /\ [][Construct]_vars

\* _Placeholder(sp): the placeholder attributes of a shape
PlaceholderOf(e) ==
    [ph |-> e.ph, type |-> e.type, orient |-> e.orient, sz |-> e.sz, idx |-> e.idx]

\* slidelayout.shapes as the running loop finds it: the sequence handed in,
\* or, when slidelayout.shapes is the collection itself, its list of shapes
\* as it is now
LayoutShapes ==
    IF loop.self
    THEN [k \in 1..Len(shapes[loop.coll]) |-> PlaceholderOf(elm[shapes[loop.coll][k].elm])]
    ELSE loop.layout

\* the iterator staying on the shape it has visited
same_index(i) == i

\* the list iterator of 'for sp in slidelayout.shapes' moving to the next shape
next_index(i) == i + 1

\* c._clone_layout_placeholders(slidelayout) is called: the for statement
\* takes an iterator of slidelayout.shapes
CloneBegin(c, layout) ==
    /\ state = "ready" /\ ~loop.active
    /\ Room(Len(SelectSeq(layout, is_cloned)))
    /\ loop' = [active |-> TRUE, coll |-> c, self |-> FALSE, layout |-> layout,
                i |-> 1, len0 |-> Len(layout), doc0 |-> Doc]
    /\ UNCHANGED <<elm, kids, shapes, slide, state, last, prev, freed>>

\* the same call with an object whose shapes is the collection c itself
CloneBeginSelf(c) ==
    /\ state = "ready" /\ ~loop.active
    /\ Room(1)
    /\ loop' = [active |-> TRUE, coll |-> c, self |-> TRUE, layout |-> <<>>,
                i |-> 1, len0 |-> Len(shapes[c]), doc0 |-> Doc]
    /\ UNCHANGED <<elm, kids, shapes, slide, state, last, prev, freed>>

\* the iterator yields the shape at its index and moves on (a shape to clone
\* is taken up only while the run may still create an element)
CloneTurn ==
    /\ loop.active
    /\ loop.i <= Len(LayoutShapes)
    /\ is_cloned(LayoutShapes[loop.i]) => Room(1)
    /\ loop' = [loop EXCEPT !.i = next_index(@)]

\* one turn of the loop: the shape the iterator yields is cloned unless it
\* is no placeholder or a latent one
CloneStep ==
    /\ CloneTurn
    /\ LET sp == LayoutShapes[loop.i]
       IN  IF is_cloned(sp)
           THEN /\ Install(clone_layout_placeholder(Doc, loop.coll, sp))
                /\ last' = Call("clone_step", loop.coll, new_handle(Doc))
           ELSE /\ UNCHANGED <<elm, kids, shapes>>
                /\ prev' = Doc
                /\ last' = Call("clone_step", loop.coll, 0)
    /\ UNCHANGED <<slide, state, freed>>

\* the iterator is exhausted and the call returns
CloneEnd ==
    /\ loop.active
    /\ loop.i > Len(LayoutShapes)
    /\ loop' = NoLoop
    /\ prev' = loop.doc0
    /\ last' = [Call("clone", loop.coll, 0) EXCEPT !.layout = LayoutShapes]
    /\ UNCHANGED <<elm, kids, shapes, slide, state, freed>>

CloneCall ==
    \E c \in DOMAIN shapes :
        \/ \E layout \in Layouts : CloneBegin(c, layout)
        \/ CloneBeginSelf(c)

NextClone == Construct \/ CloneCall \/ CloneStep \/ CloneEnd

\* _clone_layout_placeholders taken one turn of its loop at a time; a call
\* that has begun keeps running: its iterator moves on while it has a shape
\* to yield, and the call returns once it has none
SpecClone == Init /\ [][NextClone]_vars /\ WF_loop(CloneTurn) /\ WF_loop(CloneEnd)

\* the calls made on a malformed tree
AddMalformed == \E c \in DOMAIN shapes : AddTextbox(c)

NextMalformed == Construct \/ AddMalformed

\* the collection used on trees that break the conventions of ids
SpecMalformed == InitMalformed /\ [][NextMalformed]_vars

---------------------------------------------------------------------------
(* Views of the tree used by the properties *)

\* the elements of the tree of document d that hold a cNvPr
cNvPrsOf(d) == Range(xpath_cNvPr(d))

\* the ids in use in the tree of d
IdSetOf(d) == {d.elm[h].id : h \in cNvPrsOf(d)}

\* the names in use in the tree of d
NamesOf(d) == {d.elm[h].name : h \in cNvPrsOf(d)}

IdsUniqueIn(d) == \A h, k \in cNvPrsOf(d) : h # k => d.elm[h].id # d.elm[k].id

NamesUniqueIn(d) == \A h, k \in cNvPrsOf(d) : h # k => d.elm[h].name # d.elm[k].name

cNvPrs == cNvPrsOf(Doc)

IdSet == IdSetOf(Doc)

\* the smallest positive integer outside S
SmallestFree(S) ==
    CHOOSE n \in 1..(Cardinality(S) + 1) : n \notin S /\ \A m \in 1..(n - 1) : m \in S

\* element e is named by a base name and its own id minus 1, as add_* name
Conventional(e) == e.name # <<>> /\ e.name[Len(e.name)] = ToString(e.id - 1)

\* the nvGrpSpPr of the root, which holds the root's cNvPr (id 1, no name)
RootNv == Head(kids[Root])

\* ids distinct and, the cNvPr of the root apart, every name conventional
TreeConventionalIn(d) ==
    /\ IdsUniqueIn(d)
    /\ \A h \in cNvPrsOf(d) :
          IF h = RootNv THEN d.elm[h].name = <<>> ELSE Conventional(d.elm[h])

FreshAdds == {"add_picture", "add_shape", "add_table", "add_textbox"}

\* the last call was an add_* that returned its new shape
FreshAdded == last.op \in FreshAdds /\ ~last.raised

\* the elements the last call created
Born == DOMAIN elm \ DOMAIN prev.elm

---------------------------------------------------------------------------
(* Claims *)

\* C1: ID uniqueness.  Starting from a tree with pairwise distinct ids, after
\* every add_picture, add_shape, add_table, add_textbox and
\* _clone_layout_placeholders call, on the top-level or on a nested group
\* collection, no two cNvPr elements of the tree carry the same id.
C1_IdUniqueness == IdsUniqueIn(Doc)

\* reached: a clone and an add have acted, one of them on the nested collection
C1_Witness ==
    /\ state = "ready"
    /\ Cardinality(created) >= 2
    /\ \E h \in created : elm[h].ph
    /\ \E h \in created : ~elm[h].ph
    /\ \E h \in created : \E c \in DOMAIN kids : c # Root /\ h \in Range(kids[c])

\* C2 as stated: after each operation no two shapes of the tree share a name.
C2_NameUniqueness == NamesUniqueIn(Doc)

\* C2 amended: a call on a tree with distinct ids whose names are all a base
\* name and the shape's own id minus 1 leaves such a tree, with pairwise
\* distinct names; and _clone_layout_placeholders keeps distinct names
\* distinct on any tree.  (add_* on other trees can repeat a name.)
C2_NameUniquenessAmended ==
    /\ TreeConventionalIn(prev) => (TreeConventionalIn(Doc) /\ NamesUniqueIn(Doc))
    /\ (NamesUniqueIn(prev) /\ last.op = "clone") => NamesUniqueIn(Doc)

\* reached: a conventional tree on which an add_* and then a clone have acted
C2_Witness ==
    /\ TreeConventionalIn(prev) /\ NamesUniqueIn(Doc)
    /\ last.op = "clone" /\ Born # {}
    /\ \E h \in created : ~elm[h].ph

\* C3: gap filling.  __next_shape_id is the smallest positive integer that no
\* cNvPr of the full tree, nested groups included, uses as id; with the
\* root's id 1 in the tree it is at least 2.
C3_GapFilling ==
    LET n == next_shape_id(Doc)
    IN  /\ n >= 1
        /\ n \notin IdSet
        /\ \A m \in 1..(n - 1) : m \in IdSet
        /\ (1 \in IdSet => n >= 2)

\* reached: after an add, the ids {1,2,4}, where the allocator gives 3
C3_Witness ==
    /\ created # {}
    /\ IdSet = {1, 2, 4}
    /\ next_shape_id(Doc) = 3

\* C4 as stated: the name composed by add_picture, add_shape, add_table or
\* add_textbox differs from every name in the tree at the time of the call.
C4_FreshNameUnique == FreshAdded => elm[last.ret].name \notin NamesOf(prev)

\* C4 amended: the name composed by add_picture, add_shape, add_table or
\* add_textbox differs from the name of every shape in the tree that is named
\* by a base name and its own id minus 1; it can repeat a name that is not.
C4_FreshNameUniqueAmended ==
    FreshAdded =>
        \A h \in cNvPrsOf(prev) :
            Conventional(prev.elm[h]) => prev.elm[h].name # elm[last.ret].name

\* reached: an add_* on a tree holding a conventional name of the same base
\* name and a name that is not conventional
C4_Witness ==
    /\ FreshAdded
    /\ \E h \in cNvPrsOf(prev) :
          /\ Conventional(prev.elm[h])
          /\ SubSeq(prev.elm[h].name, 1, Len(prev.elm[h].name) - 1)
                = SubSeq(elm[last.ret].name, 1, Len(elm[last.ret].name) - 1)
    /\ \E h \in cNvPrsOf(prev) \ {RootNv} : ~Conventional(prev.elm[h])

\* C5: allocation under external edits.  With shapes removed by another
\* component between the calls, the ids of the tree stay pairwise distinct
\* after every step, and every shape an add or clone creates gets the
\* smallest id free in the tree at that moment (a freed id is used again).
C5_AllocationUnderEdits ==
    /\ IdsUniqueIn(Doc)
    /\ \A h \in Born :
          elm[h].id = SmallestFree(IdSetOf(prev) \cup {elm[k].id : k \in {b \in Born : b < h}})

\* reached: an add took an id freed by a removal, below the largest id in use
C5_Witness ==
    /\ last.op = "add_textbox"
    /\ elm[last.ret].id \in freed
    /\ elm[last.ret].id \notin IdSetOf(prev)
    /\ elm[last.ret].id < Max(IdSet)

\* C6: tree/sequence pairing and order.  After construction and after every
\* add or clone, the sequence of each collection holds, one to one and in
\* the same order, the children of its backing element other than
\* nvGrpSpPr, grpSpPr and extLst.
C6_TreeSequencePairing ==
    state = "ready" =>
        \A c \in DOMAIN shapes :
            [i \in 1..Len(shapes[c]) |-> shapes[c][i].elm]
                = SelectSeq(kids[c], LAMBDA h : elm[h].tag \notin {"nvGrpSpPr", "grpSpPr", "extLst"})

\* reached: both collections extended, the new children behind the extLst
C6_Witness ==
    /\ state = "ready"
    /\ \A c \in DOMAIN kids : \E h \in created : h \in Range(kids[c])
    /\ Cardinality(DOMAIN kids) = 2
    /\ \E i \in 1..Len(kids[Root]) : elm[kids[Root][i]].tag = "extLst" /\ i < Len(kids[Root])

\* the place of element h in the sequence of collection c
Pos(c, h) == CHOOSE i \in 1..Len(shapes[c]) : shapes[c][i].elm = h

\* C7: placeholders holds exactly the shapes of the collection that are
\* placeholders, each once, in ascending order of idx, those of equal idx in
\* collection order.
C7_Placeholders ==
    state = "ready" =>
        \A c \in DOMAIN shapes :
            LET p == placeholders(Doc, c)
                phs == {i \in 1..Len(shapes[c]) : elm[shapes[c][i].elm].ph}
            IN  /\ Len(p) = Cardinality(phs)
                /\ Range(p) = {shapes[c][i].elm : i \in phs}
                /\ \A i, j \in 1..Len(p) :
                      i < j => \/ elm[p[i]].idx < elm[p[j]].idx
                               \/ /\ elm[p[i]].idx = elm[p[j]].idx
                                  /\ Pos(c, p[i]) < Pos(c, p[j])

\* reached: a collection whose placeholders are not in idx order and two of
\* which have the same idx
C7_Witness ==
    /\ state = "ready"
    /\ \E c \in DOMAIN shapes : \E i, j, k, l \in 1..Len(shapes[c]) :
          /\ i < j /\ k < l
          /\ \A m \in {i, j, k, l} : elm[shapes[c][m].elm].ph
          /\ elm[shapes[c][i].elm].idx > elm[shapes[c][j].elm].idx
          /\ elm[shapes[c][k].elm].idx = elm[shapes[c][l].elm].idx

\* the layout shapes _clone_layout_placeholders is to copy
NonLatent(layout) ==
    SelectSeq(layout, LAMBDA sp : sp.ph /\ sp.type \notin {"dt", "sldNum", "ftr"})

\* C8: placeholder clone skip.  _clone_layout_placeholders adds one shape for
\* each layout placeholder whose type is not date, slide number or footer,
\* and none for the placeholders of these types nor for the layout shapes
\* that are no placeholders.
C8_CloneSkip ==
    last.op = "clone" =>
        /\ Cardinality(Born) = Len(NonLatent(last.layout))
        /\ Len(shapes[last.coll]) = Len(prev.shapes[last.coll]) + Len(NonLatent(last.layout))
        /\ \A h \in Born : elm[h].ph /\ elm[h].type \notin {"dt", "sldNum", "ftr"}

\* reached: a layout with a date, a footer and a slide number placeholder cloned
C8_Witness ==
    /\ last.op = "clone"
    /\ last.layout = <<LBodyV, LDate, LFooter, LSldNum, LTitle>>
    /\ Cardinality(Born) = 2
    /\ \A h \in Born : elm[h].type \in {"body", "title"}

\* C9: placeholder clone order and attributes.  The shapes the clone adds
\* come last in the collection, in the order of their source placeholders
\* in the layout, each with the type, orientation, size and idx of its source.
C9_CloneOrder ==
    last.op = "clone" =>
        LET c == last.coll
            src == NonLatent(last.layout)
            n == Len(prev.kids[c])
        IN  /\ Len(kids[c]) = n + Len(src)
            /\ SubSeq(kids[c], 1, n) = prev.kids[c]
            /\ \A i \in 1..Len(src) :
                  LET h == kids[c][n + i]
                  IN  /\ h \in Born
                      /\ shapes[c][Len(prev.shapes[c]) + i].elm = h
                      /\ elm[h].type = src[i].type
                      /\ elm[h].orient = src[i].orient
                      /\ elm[h].sz = src[i].sz
                      /\ elm[h].idx = src[i].idx

\* reached: two placeholders cloned, a layout shape between them left out
C9_Witness ==
    /\ last.op = "clone"
    /\ last.layout = <<LCtrTitle, LLogo, LBodyV>>
    /\ LET k == kids[last.coll]
       IN  /\ Len(k) >= 2
           /\ elm[k[Len(k) - 1]].type = "ctrTitle" /\ elm[k[Len(k) - 1]].idx = 0
           /\ elm[k[Len(k)]].type = "body" /\ elm[k[Len(k)]].idx = 1
           /\ {k[Len(k) - 1], k[Len(k)]} = Born

\* the names in the tree when h, created by the last call, was named
NamesBefore(h) == NamesOf(prev) \cup {elm[k].name : k \in {b \in Born : b < h}}

\* C10: placeholder naming.  The name of a cloned placeholder is the base
\* name of its type, with "Vertical" before it exactly when its orientation
\* is vertical, followed by the smallest n >= id - 1 that makes a name no
\* shape of the tree has.
C10_PlaceholderName ==
    last.op = "clone" =>
        \A h \in Born :
            LET e == elm[h]
                base == IF e.orient = "vert"
                        THEN <<"Vertical">> \o slide_ph_basenames(e.type)
                        ELSE slide_ph_basenames(e.type)
            IN  \E n \in (e.id - 1)..(e.id - 1 + Cardinality(NamesBefore(h))) :
                    /\ e.name = base \o <<ToString(n)>>
                    /\ e.name \notin NamesBefore(h)
                    /\ \A m \in (e.id - 1)..(n - 1) :
                          (base \o <<ToString(m)>>) \in NamesBefore(h)

\* reached: a clone named a vertical body placeholder and, its first name
\* taken, gave another a number above id - 1
C10_Witness ==
    /\ last.op = "clone"
    /\ \E h \in Born :
          /\ elm[h].orient = "vert"
          /\ SubSeq(elm[h].name, 1, 3) = <<"Vertical", "Text", "Placeholder">>
    /\ \E h \in Born : elm[h].ph /\ ~Conventional(elm[h])

\* whether an element of the tree of the document is a contentPart
HasContentPart == \E h \in Range(iterdescendants(Doc, Root)) : elm[h].tag = CONTENTPART

\* C11: constructing a collection raises exactly when the node, or a group
\* below it, has a contentPart child, wherever the child sits; after the
\* error no collection exists, none of the shapes before the contentPart kept
C11_UnsupportedTag ==
    state # "new" =>
        /\ state = "error" <=> HasContentPart
        /\ state = "error" => (last.raised /\ shapes = NoShapes /\ slide = NoShapes)

\* a construction that raised on a contentPart that is the last child of the
\* node, after an sp the loop had already wrapped
C11_Witness ==
    /\ state = "error"
    /\ elm[kids[Root][Len(kids[Root])]].tag = CONTENTPART
    /\ elm[kids[Root][Len(kids[Root]) - 1]].tag = SP

\* C12: add operations always succeed.  Every call of add_picture, add_shape,
\* add_table, add_textbox and _clone_layout_placeholders on a collection, a
\* nested group collection included, completes without an error, and every
\* add_* call adds its shape.
C12_AddsSucceed ==
    last.op \in FreshAdds \cup {"clone"} =>
        /\ ~last.raised
        /\ last.op \in FreshAdds =>
               (Born = {last.ret} /\ last.ret \in Range(kids[last.coll]))

\* the outcome of the unmarshal loop for an element, by its tag
Outcome(e) ==
    CASE e.tag \in {"nvGrpSpPr", "grpSpPr", "extLst"} -> "skipped"
      [] e.tag = "sp" -> "_Shape"
      [] e.tag = "pic" -> "_Picture"
      [] e.tag = "grpSp" -> "_ShapeCollection"
      [] e.tag = "graphicFrame" /\ e.has_table -> "_Table"
      [] e.tag = "graphicFrame" /\ ~e.has_table -> "_BaseShape"
      [] e.tag = "contentPart" -> "raises"
      [] OTHER -> "_BaseShape"

\* the children of c that are not skipped, in document order
Qualifying(c) == SelectSeq(kids[c], LAMBDA h : Outcome(elm[h]) # "skipped")

\* C13: classification.  A constructed collection, and the collection of
\* every group below it, holds one shape for each child that is no
\* nvGrpSpPr, grpSpPr or extLst, in document order, of the class its tag
\* decides: sp an auto shape, pic a picture, grpSp a nested collection,
\* graphicFrame a table when it has a table and a generic shape otherwise,
\* cxnSp and any other tag a generic shape; a contentPart raises.
C13_Classification ==
    /\ state = "ready" =>
           \A c \in DOMAIN kids :
               /\ c \in DOMAIN shapes
               /\ Len(shapes[c]) = Len(Qualifying(c))
               /\ \A i \in 1..Len(shapes[c]) :
                      /\ shapes[c][i].elm = Qualifying(c)[i]
                      /\ shapes[c][i].cls = Outcome(elm[Qualifying(c)[i]])
    /\ state = "error" =>
           \E h \in Range(iterdescendants(Doc, Root)) : Outcome(elm[h]) = "raises"
    /\ state = "ready" =>
           \A h \in Range(iterdescendants(Doc, Root)) : Outcome(elm[h]) # "raises"

\* a constructed collection with a group and a graphicFrame without a table,
\* the group holding a child of a tag the loop does not name
C13_Witness ==
    /\ state = "ready"
    /\ \E i \in 1..Len(shapes[Root]) :
           /\ elm[shapes[Root][i].elm].tag = GRAPHICFRAME
           /\ shapes[Root][i].cls = "_BaseShape"
    /\ \E g \in DOMAIN shapes \ {Root} : \E j \in 1..Len(shapes[g]) :
           /\ elm[shapes[g][j].elm].tag \notin {SP, PIC, GRPSP, GRAPHICFRAME, CXNSP}
           /\ shapes[g][j].cls = "_BaseShape"

\* the groups among the children of c
GroupsOf(c) == {g \in Range(kids[c]) : elm[g].tag = GRPSP}

\* C14: group recursion.  In every collection, at every depth, a group child
\* is one element, itself a collection; the shapes of the collection are
\* direct children of its node, none a child of a group, and there are as
\* many as the node has direct children that are shapes.
C14_GroupRecursion ==
    state = "ready" =>
        \A c \in DOMAIN shapes :
            /\ Len(shapes[c]) =
                   Cardinality({h \in Range(kids[c]) : ~is_skipped(elm[h].tag)})
            /\ \A i \in 1..Len(shapes[c]) : shapes[c][i].elm \in Range(kids[c])
            /\ \A g \in GroupsOf(c) :
                   /\ g \in DOMAIN shapes
                   /\ Cardinality({i \in 1..Len(shapes[c]) : shapes[c][i].elm = g}) = 1
                   /\ \A i \in 1..Len(shapes[c]) :
                          shapes[c][i].elm \notin Range(kids[g])

\* a constructed collection with a group that holds a group that holds a shape
C14_Witness ==
    /\ state = "ready"
    /\ \E g \in GroupsOf(Root) : \E gg \in GroupsOf(g) :
           /\ Len(shapes[gg]) = 1
           /\ Len(shapes[g]) = 1
           /\ Len(shapes[Root]) = 2

\* the positions in collection c of the shapes that are title placeholders
TitlePositions(c) ==
    {i \in 1..Len(shapes[c]) :
        LET e == elm[shapes[c][i].elm]
        IN  e.ph /\ e.type \in {"title", "ctrTitle"}}

\* C15: title is the first shape of the collection, in collection order,
\* that is a title placeholder, and None exactly when the collection holds
\* no title placeholder.
C15_Title ==
    state = "ready" =>
        \A c \in DOMAIN shapes :
            /\ title(Doc, c) = None <=> TitlePositions(c) = {}
            /\ TitlePositions(c) # {} =>
                   \E i \in TitlePositions(c) :
                       /\ title(Doc, c) = shapes[c][i].elm
                       /\ \A j \in TitlePositions(c) : i <= j

\* a collection with two title placeholders after a shape that is none, and
\* next to it a collection without a title
C15_Witness ==
    /\ state = "ready"
    /\ \E c \in DOMAIN shapes :
           /\ Cardinality(TitlePositions(c)) = 2
           /\ 1 \notin TitlePositions(c)
           /\ title(Doc, c) # None
           /\ \E i \in TitlePositions(c) : i < Len(shapes[c]) /\ title(Doc, c) = shapes[c][i].elm
    /\ \E c \in DOMAIN shapes : Len(shapes[c]) > 0 /\ title(Doc, c) = None

\* the base name an add_* call gives its shape
BaseOf(call) ==
    CASE call.op = "add_picture" -> <<"Picture">>
      [] call.op = "add_table"   -> <<"Table">>
      [] call.op = "add_textbox" -> <<"TextBox">>
      [] call.op = "add_shape"   -> autoshape_basename(call.kind)

\* the tree the collection was constructed on held the root's cNvPr only
RootOnly == DOMAIN elm \cap InitHandles = {1, 2, 3, 9}

\* C16: name/id coupling of fresh adds.  The shape an add_* call adds has
\* the id the allocator gives on the tree before the call, and the name
\* "<Base> <id - 1>"; on a tree that held only the root (id 1) the n-th
\* shape added has id n + 1 and name suffix n.
C16_NameIdCoupling ==
    FreshAdded =>
        LET e == elm[last.ret]
        IN  /\ e.id = next_shape_id(prev)
            /\ e.name = Append(BaseOf(last), ToString(e.id - 1))
            /\ RootOnly =>
                   /\ e.id = Cardinality(created) + 1
                   /\ e.name[Len(e.name)] = ToString(Cardinality(created))

\* two add_* calls on a tree that held only the root: ids 2 and 3, names
\* ending in 1 and 2
C16_Witness ==
    /\ FreshAdded /\ RootOnly
    /\ elm[last.ret].id = 3
    /\ elm[last.ret].name[Len(elm[last.ret].name)] = "2"
    /\ \E h \in created \ {last.ret} :
           /\ elm[h].id = 2
           /\ elm[h].name \in {<<"Picture", "1">>, <<"Table", "1">>, <<"TextBox", "1">>,
                                <<"Rectangle", "1">>, <<"Rounded", "Rectangle", "1">>}

\* the last call added shapes: an add_* that returned, or a clone
Added == last.op \in FreshAdds \cup {"clone"} /\ ~last.raised

IdsOf(d) == [i \in 1..Len(xpath_cNvPr(d)) |-> d.elm[xpath_cNvPr(d)[i]].id]

\* C18: the allocator never returns a used id.  On every tree, ids that are
\* equal, zero or negative included, __next_shape_id is at least 1 and the
\* id of no element of the tree; the id an add gave its shape was at least
\* 1 and the id of no element of the tree before the call.
C18_NeverUsed ==
    /\ next_shape_id(Doc) >= 1
    /\ \A i \in 1..Len(IdsOf(Doc)) : IdsOf(Doc)[i] # next_shape_id(Doc)
    /\ FreshAdded =>
           /\ elm[last.ret].id >= 1
           /\ \A i \in 1..Len(IdsOf(prev)) : IdsOf(prev)[i] # elm[last.ret].id

\* an add on a tree with an id held twice, the id zero and a negative id,
\* where the id given was not the smallest free one
C18_Witness ==
    /\ FreshAdded
    /\ \E i, j \in 1..Len(IdsOf(prev)) : i # j /\ IdsOf(prev)[i] = IdsOf(prev)[j]
    /\ \E i \in 1..Len(IdsOf(prev)) : IdsOf(prev)[i] = 0
    /\ \E i \in 1..Len(IdsOf(prev)) : IdsOf(prev)[i] < 0
    /\ elm[last.ret].id # SmallestFree(IdSetOf(prev))

\* layout shape sp is one the loop clones
Clonable(sp) == sp.ph /\ sp.type \notin {"dt", "sldNum", "ftr"}

\* the running call walks a list that gets a new shape whenever it clones
\* one: slidelayout.shapes is the collection extended and holds a
\* placeholder that is not latent
Feeding ==
    /\ loop.active /\ loop.self
    /\ \E k \in 1..Len(LayoutShapes) : Clonable(LayoutShapes[k])

\* C19: termination.  A running _clone_layout_placeholders has made no more
\* turns of its loop than slidelayout.shapes held shapes when it was
\* called, the case that slidelayout.shapes is the collection extended
\* included.
C19_Termination == loop.active => loop.i - 1 <= loop.len0

\* what holds of the loops at every moment: the search of __next_ph_name
\* ends within as many tries as there are names; a call on a list that is
\* not fed makes at most one turn per shape of the list, which keeps its
\* length, and its result is that of the loop over the list; a call on a
\* list it feeds always has a shape left to visit
C19_Loops ==
    /\ (last.op = "clone_step" /\ last.ret # 0) =>
           LET e == elm[last.ret]
           IN  \E n \in (e.id - 1)..(e.id - 1 + Cardinality(NamesOf(prev))) :
                   e.name[Len(e.name)] = ToString(n)
    /\ (loop.active /\ ~Feeding) =>
           /\ loop.i - 1 <= loop.len0
           /\ Len(LayoutShapes) = loop.len0
    /\ (last.op = "clone" /\ ~loop.active) =>
           Doc = clone_layout_placeholders(prev, last.coll, last.layout)
    /\ Feeding => loop.i <= Len(LayoutShapes)

\* C19 amended: the collision loop of __next_ph_name terminates, and
\* _clone_layout_placeholders returns after one turn per layout shape
\* unless slidelayout.shapes is the collection extended and holds a
\* placeholder that is not latent; then the loop never runs out of shapes.
C19_TerminationAmended ==
    /\ []C19_Loops
    /\ (loop.active /\ ~Feeding) ~> ~loop.active

\* a call that returned after cloning two placeholders of a layout of three
\* shapes, the vertical body under a name found by the search
C19_Witness ==
    /\ ~loop.active
    /\ last.op = "clone"
    /\ Len(last.layout) = 3
    /\ Cardinality(Born) = 2

====
